---- MODULE Spec2Model ----
(***************************************************************************)
(* GST invoice generator: the calculation engine of src/src/invoiceCalc.js *)
(* (calcLineItem, calcInvoiceTotals, numberToWords, formatCurrency), the   *)
(* totals rows of the preview and of the exporters, and the item list of   *)
(* the form of src/src/App.js.                                             *)
(*                                                                         *)
(* A JavaScript value is a record [k, p, f].  k is the kind: "num" (a      *)
(* finite number), "nan", "undef" (a missing property), "numstr" (a string *)
(* whose text is a decimal number) and "str" (any other non-empty string). *)
(* A finite number is an exact decimal: p hundredths of a currency unit    *)
(* (paise), rounded down, plus f millionths of one hundredth, 0 <= f < F.  *)
(* The amounts of the model have at most eight decimal places, which is    *)
(* what one quantity x rate x percent x percent chain of two-decimal       *)
(* inputs needs; binary floating-point representation error is not         *)
(* modelled.                                                               *)
(***************************************************************************)
EXTENDS Integers, Sequences, FiniteSets, TLC

VARIABLES item, calc, inv, totals, pc

\* the arguments n (amt) and cur (ccy) of a formatting function, the result
\* of numberToWords and the result of formatCurrency
VARIABLES amt, ccy, spoken, formatted

\* the form: the handler that ran last, the totals rows of the preview as
\* rendered, and the totals rows of the documents written by the exporters
VARIABLES op, shown, exported

\* localStorage: the text kept under SAVE_KEY, and whether the last write
\* to it threw
VARIABLES stored

textVars == <<amt, ccy, spoken, formatted>>
formVars == <<op, shown, exported, stored>>

vars == <<item, calc, inv, totals, pc, amt, ccy, spoken, formatted, op, shown, exported, stored>>

\* ------------------------------------------------------------------------
\* Bounds of the model
\* ------------------------------------------------------------------------
MaxQty == 3
MaxItems == 2
MaxStack == 6

\* ------------------------------------------------------------------------
\* JavaScript values and arithmetic
\* ------------------------------------------------------------------------
F == 1000 * 1000

Num(p, f) == [k |-> "num", p |-> p, f |-> f]
NaN == [k |-> "nan", p |-> 0, f |-> 0]
Undefined == [k |-> "undef", p |-> 0, f |-> 0]
Str == [k |-> "str", p |-> 0, f |-> 0]
NumStr(p, f) == [k |-> "numstr", p |-> p, f |-> f]

\* n whole currency units, and c hundredths of a unit
Whole(n) == Num(100 * n, 0)
Paise(c) == Num(c, 0)
\* m thousandths of a unit
Milli(m) == Num(m \div 10, (m % 10) * (F \div 10))
Zero == Num(0, 0)

IsNum(v) == v.k = "num"

\* carry the millionths into the hundredths
Norm(p, f) == Num(p + (f \div F), f % F)

\* ToNumber: the coercion of the arithmetic operators
ToNumber(v) == IF v.k \in {"num", "numstr"} THEN Num(v.p, v.f) ELSE NaN

\* parseFloat(v): v is first turned into a string, of which the leading
\* decimal number is read
parseFloat(v) == IF v.k \in {"num", "numstr"} THEN Num(v.p, v.f) ELSE NaN

\* ToBoolean: 0, NaN and undefined are falsy, a non-empty string is truthy
Truthy(v) == CASE v.k = "num" -> (v.p # 0 \/ v.f # 0)
               [] v.k \in {"numstr", "str"} -> TRUE
               [] OTHER -> FALSE

\* v || 0
OrZero(v) == IF Truthy(v) THEN v ELSE Zero

Add(a, b) == IF IsNum(a) /\ IsNum(b) THEN Norm(a.p + b.p, a.f + b.f) ELSE NaN

Sub(x, y) ==
  LET a == ToNumber(x)
      b == ToNumber(y)
  IN IF IsNum(a) /\ IsNum(b) THEN Norm(a.p - b.p, a.f - b.f) ELSE NaN

\* a * n for an integer n
MulInt(a, n) == IF IsNum(a) THEN Norm(a.p * n, a.f * n) ELSE NaN

\* a / n for an integer n in 1..100
DivInt(a, n) ==
  IF IsNum(a) THEN Norm(a.p \div n, (((a.p % n) * F) + a.f) \div n) ELSE NaN

\* (x * y) / 100 for integers x and 0 <= y < F, without the large product
PartDiv(x, y) == (x * (y \div 100)) + ((x * (y % 100)) \div 100)

\* x * y: (ap + af/F) * (bp + bf/F) / 100 hundredths
Mul(x, y) ==
  LET a == ToNumber(x)
      b == ToNumber(y)
      m1 == a.p * b.p
      m2 == PartDiv(a.p, b.f) + PartDiv(b.p, a.f)
      m3 == IF a.f = 0 \/ b.f = 0 THEN 0
            ELSE ((a.f \div 1000) * (b.f \div 1000)) \div 100
  IN IF IsNum(a) /\ IsNum(b)
     THEN Norm(m1 \div 100, ((m1 % 100) * (F \div 100)) + m2 + m3)
     ELSE NaN

\* a < b on numbers; every comparison with NaN is false
Lt(a, b) == IsNum(a) /\ IsNum(b) /\ (a.p < b.p \/ (a.p = b.p /\ a.f < b.f))

\* a === b on numbers
StrictEq(a, b) == IsNum(a) /\ IsNum(b) /\ a.p = b.p /\ a.f = b.f

MathMin(x, y) ==
  LET a == ToNumber(x)
      b == ToNumber(y)
  IN IF IsNum(a) /\ IsNum(b) THEN (IF Lt(b, a) THEN b ELSE a) ELSE NaN

MathAbs(a) ==
  IF IsNum(a) THEN (IF a.p < 0 THEN Norm(0 - a.p, 0 - a.f) ELSE a) ELSE NaN

\* Math.round: the nearest whole number, a tie going towards +infinity
MathRound(a) == IF IsNum(a) THEN Num(100 * ((a.p + 50) \div 100), 0) ELSE NaN

\* Math.round(a * 100) / 100
Round2(a) == DivInt(MathRound(MulInt(a, 100)), 100)

\* ------------------------------------------------------------------------
\* calcLineItem
\* ------------------------------------------------------------------------
NoCalc == [subtotal |-> Zero, discountAmt |-> Zero, taxableValue |-> Zero,
           gstAmt |-> Zero, total |-> Zero]

\* discountAmtOf without the clamp of a flat discount to the subtotal
discountAmtOf_Unclamped(it, subtotal) ==
  IF it.discountType = "flat"
  THEN ToNumber(OrZero(it.discount))
  ELSE Mul(subtotal, DivInt(ToNumber(OrZero(it.discount)), 100))

\* discountAmtOf with a percent discount clamped to the subtotal as well
discountAmtOf_PercentClamped(it, subtotal) ==
  IF it.discountType = "flat"
  THEN MathMin(OrZero(it.discount), subtotal)
  ELSE MathMin(Mul(subtotal, DivInt(ToNumber(OrZero(it.discount)), 100)), subtotal)

\* discountAmtOf that gives no discount unless the type is "flat" or "percent"
discountAmtOf_TypeRequired(it, subtotal) ==
  IF it.discountType = "flat"
  THEN MathMin(OrZero(it.discount), subtotal)
  ELSE IF it.discountType = "percent"
  THEN Mul(subtotal, DivInt(ToNumber(OrZero(it.discount)), 100))
  ELSE Zero

\* the discount of an item whose quantity * rate is subtotal: "flat" is an
\* amount that cannot exceed the subtotal, anything else a percentage of it
discountAmtOf(it, subtotal) ==
  IF it.discountType = "flat"
  THEN MathMin(OrZero(it.discount), subtotal)
  ELSE Mul(subtotal, DivInt(ToNumber(OrZero(it.discount)), 100))

calcLineItem(it) ==
  LET subtotal == Mul(it.quantity, it.rate)
      discountAmt == discountAmtOf(it, subtotal)
      taxableValue == Sub(subtotal, discountAmt)
      gstAmt == Mul(taxableValue, DivInt(ToNumber(it.gstRate), 100))
  IN [subtotal |-> Round2(subtotal),
      discountAmt |-> Round2(discountAmt),
      taxableValue |-> Round2(taxableValue),
      gstAmt |-> Round2(gstAmt),
      total |-> Round2(Add(taxableValue, gstAmt))]

\* ------------------------------------------------------------------------
\* Inputs
\* ------------------------------------------------------------------------
Quantities == {Whole(q) : q \in 0..MaxQty} \cup {Undefined}
Rates == {Paise(c) : c \in {0, 1, 10, 13, 25, 100, 50000, 100000}} \cup {Undefined}
Discounts == {Paise(c) : c \in {0, 1, 100, 500, 1000, 5000, 10010, 15000, 150000}}
               \cup {Undefined, Str}
DiscountTypes == {"percent", "flat", "undef"}
GstRates == {Whole(g) : g \in {0, 5, 12, 18, 28}} \cup {Undefined}

Items == [quantity : Quantities, rate : Rates, discount : Discounts,
          discountType : DiscountTypes, gstRate : GstRates]

NoItem == [quantity |-> Zero, rate |-> Zero, discount |-> Zero,
           discountType |-> "percent", gstRate |-> Zero]

\* ------------------------------------------------------------------------
\* numberToWords
\* ------------------------------------------------------------------------
currencyNames == [INR |-> "Rupees", USD |-> "Dollars", EUR |-> "Euros",
                  GBP |-> "Pounds", AED |-> "Dirhams", SGD |-> "Dollars",
                  AUD |-> "Dollars", CAD |-> "Dollars", JPY |-> "Yen"]

ones == <<"One", "Two", "Three", "Four", "Five", "Six", "Seven", "Eight",
          "Nine", "Ten", "Eleven", "Twelve", "Thirteen", "Fourteen",
          "Fifteen", "Sixteen", "Seventeen", "Eighteen", "Nineteen">>

tens == <<"", "Twenty", "Thirty", "Forty", "Fifty", "Sixty", "Seventy",
          "Eighty", "Ninety">>

\* ones[n] as a list of words: ones[0] is the empty string
OnesWord(n) == IF n = 0 THEN <<>> ELSE <<ones[n]>>

\* a group that leaves out what remains below its unit
Group_DropsRest(hi, name, rest, lo) ==
  [threw |-> hi.threw, w |-> hi.w \o <<name>>]

\* c(Math.floor(num / unit)) + " Name" + (num % unit ? " " + c(num % unit) : "")
Group(hi, name, rest, lo) ==
  [threw |-> hi.threw \/ (rest /\ lo.threw),
   w |-> hi.w \o <<name>> \o (IF rest THEN lo.w ELSE <<>>)]

\* The inner function c of numberToWords, on a whole number n or, with
\* nan, on NaN; depth counts the frames of c on the call stack, and a call
\* beyond MaxStack frames raises RangeError (threw).
RECURSIVE c(_, _, _)
c(nan, n, depth) ==
  IF depth > MaxStack THEN [threw |-> TRUE, w |-> <<>>]
  ELSE IF nan
    THEN Group(c(TRUE, 0, depth + 1), "Crore", FALSE, [threw |-> FALSE, w |-> <<>>])
  ELSE IF n < 20 THEN [threw |-> FALSE, w |-> OnesWord(n)]
  ELSE IF n < 100
    THEN [threw |-> FALSE, w |-> <<tens[n \div 10]>> \o OnesWord(n % 10)]
  ELSE IF n < 1000
    THEN LET lo == c(FALSE, n % 100, depth + 1)
         IN [threw |-> (n % 100 # 0) /\ lo.threw,
             w |-> <<ones[n \div 100], "Hundred">>
                     \o (IF n % 100 # 0 THEN <<"and">> \o lo.w ELSE <<>>)]
  ELSE IF n < 100000
    THEN Group(c(FALSE, n \div 1000, depth + 1), "Thousand",
               n % 1000 # 0, c(FALSE, n % 1000, depth + 1))
  ELSE IF n < 10000000
    THEN Group(c(FALSE, n \div 100000, depth + 1), "Lakh",
               n % 100000 # 0, c(FALSE, n % 100000, depth + 1))
  ELSE Group(c(FALSE, n \div 10000000, depth + 1), "Crore",
             n % 10000000 # 0, c(FALSE, n % 10000000, depth + 1))

\* numberToWords without the early return for 0
numberToWords_NoZeroCase(amount, code) ==
  LET prefix == IF code \in DOMAIN currencyNames THEN currencyNames[code]
                ELSE "Rupees"
      m == MathRound(MathAbs(amount))
      r == c(~IsNum(m), IF IsNum(m) THEN m.p \div 100 ELSE 0, 1)
  IN [threw |-> r.threw, w |-> <<prefix>> \o r.w \o <<"Only">>]

\* numberToWords(n, cur): the text as a list of words, or threw
numberToWords(amount, code) ==
  LET prefix == IF code \in DOMAIN currencyNames THEN currencyNames[code]
                ELSE "Rupees"
      m == MathRound(MathAbs(amount))
      r == c(~IsNum(m), IF IsNum(m) THEN m.p \div 100 ELSE 0, 1)
  IN IF StrictEq(amount, Zero)
     THEN [threw |-> FALSE, w |-> <<prefix, "Zero", "Only">>]
     ELSE [threw |-> r.threw, w |-> <<prefix>> \o r.w \o <<"Only">>]

\* ------------------------------------------------------------------------
\* formatCurrency
\* ------------------------------------------------------------------------
\* CURRENCIES: the code and the symbol of every supported currency, the
\* symbols spelled out
CURRENCIES ==
  << [code |-> "INR", symbol |-> "rupee sign"],
     [code |-> "USD", symbol |-> "$"],
     [code |-> "EUR", symbol |-> "euro sign"],
     [code |-> "GBP", symbol |-> "pound sign"],
     [code |-> "AED", symbol |-> "dirham sign"],
     [code |-> "SGD", symbol |-> "S$"],
     [code |-> "AUD", symbol |-> "A$"],
     [code |-> "CAD", symbol |-> "C$"],
     [code |-> "JPY", symbol |-> "yen sign"] >>

\* a currencyCode argument that is not passed
NotPassed == "undefined"

\* the digit groups of the whole number u, the leftmost first; every group
\* after the first is printed with all its digits
RECURSIVE GroupsOf(_, _)
GroupsOf(u, size) ==
  IF u < size THEN <<u>> ELSE Append(GroupsOf(u \div size, size), u % size)

\* en-IN groups the last three digits, then pairs; en-US groups by three
Grouped(u, locale) ==
  IF locale = "en-US" THEN GroupsOf(u, 1000)
  ELSE IF u < 1000 THEN <<u>>
  ELSE Append(GroupsOf(u \div 1000, 100), u % 1000)

\* v.toLocaleString(locale, {minimumFractionDigits: 2,
\* maximumFractionDigits: 2}) of a finite number v: the sign, the grouped
\* whole part and two decimals, the magnitude rounded half away from zero
toLocaleString(v, locale) ==
  LET m == MathAbs(v)
      hundredths == m.p + (IF 2 * m.f >= F THEN 1 ELSE 0)
  IN [locale |-> locale, minus |-> v.p < 0,
      groups |-> Grouped(hundredths \div 100, locale),
      cents |-> hundredths % 100]

\* formatCurrency that formats n itself, not its magnitude
formatCurrency_Signed(amount, currencyCode) ==
  LET code == IF currencyCode = NotPassed THEN "INR" ELSE currencyCode
      found == SelectSeq(CURRENCIES, LAMBDA e : e.code = code)
      entry == IF found # <<>> THEN found[1] ELSE CURRENCIES[1]
      locale == IF code = "INR" THEN "en-IN" ELSE "en-US"
      number == toLocaleString(amount, locale)
  IN [symbol |-> entry.symbol, locale |-> number.locale, minus |-> number.minus,
      groups |-> number.groups, cents |-> number.cents]

\* formatCurrency(n, currencyCode) of a finite number n: the symbol followed
\* by the formatted magnitude
formatCurrency(amount, currencyCode) ==
  LET code == IF currencyCode = NotPassed THEN "INR" ELSE currencyCode
      found == SelectSeq(CURRENCIES, LAMBDA e : e.code = code)
      entry == IF found # <<>> THEN found[1] ELSE CURRENCIES[1]
      locale == IF code = "INR" THEN "en-IN" ELSE "en-US"
      number == toLocaleString(MathAbs(amount), locale)
  IN [symbol |-> entry.symbol, locale |-> number.locale, minus |-> number.minus,
      groups |-> number.groups, cents |-> number.cents]

\* formatINR(n, code)
formatINR(amount, code) == formatCurrency(amount, code)

\* ------------------------------------------------------------------------
\* calcInvoiceTotals
\* ------------------------------------------------------------------------
\* lineItems.reduce((s, i) => s + i.calc.<field>, 0) over the list of values
RECURSIVE Reduce(_)
Reduce(vs) ==
  IF vs = <<>> THEN Zero
  ELSE Add(Reduce(SubSeq(vs, 1, Len(vs) - 1)), vs[Len(vs)])

\* the property key of taxMap[r]: the text of r
Key(r) == IF r.k \in {"num", "numstr"} THEN <<"n", r.p, r.f>> ELSE <<r.k, 0, 0>>

\* an integer-like key: a non-negative whole number
IsIndexKey(r) == r.k \in {"num", "numstr"} /\ r.f = 0 /\ r.p >= 0 /\ r.p % 100 = 0

\* TaxMapPut with = in place of += on an entry that exists already
TaxMapPut_Overwrite(taxMap, li) ==
  LET r == li.gstRate
      hit == {j \in 1..Len(taxMap) : taxMap[j].key = Key(r)}
  IN IF hit = {}
     THEN Append(taxMap, [key |-> Key(r), rate |-> r,
                          taxable |-> Add(Zero, li.calc.taxableValue),
                          tax |-> Add(Zero, li.calc.gstAmt)])
     ELSE [j \in 1..Len(taxMap) |->
             IF j \in hit
             THEN [taxMap[j] EXCEPT !.taxable = li.calc.taxableValue,
                                    !.tax = li.calc.gstAmt]
             ELSE taxMap[j]]

\* the body of lineItems.forEach: taxMap as the list of its entries in the
\* order of their creation
TaxMapPut(taxMap, li) ==
  LET r == li.gstRate
      hit == {j \in 1..Len(taxMap) : taxMap[j].key = Key(r)}
  IN IF hit = {}
     THEN Append(taxMap, [key |-> Key(r), rate |-> r,
                          taxable |-> Add(Zero, li.calc.taxableValue),
                          tax |-> Add(Zero, li.calc.gstAmt)])
     ELSE [j \in 1..Len(taxMap) |->
             IF j \in hit
             THEN [taxMap[j] EXCEPT !.taxable = Add(@, li.calc.taxableValue),
                                    !.tax = Add(@, li.calc.gstAmt)]
             ELSE taxMap[j]]

RECURSIVE TaxMapOf(_)
TaxMapOf(lineItems) ==
  IF lineItems = <<>> THEN <<>>
  ELSE TaxMapPut(TaxMapOf(SubSeq(lineItems, 1, Len(lineItems) - 1)),
                 lineItems[Len(lineItems)])

\* .sort((a, b) => a.rate - b.rate): a stable sort; a comparison that
\* yields NaN counts as 0
RECURSIVE Insert(_, _)
Insert(sorted, t) ==
  IF sorted = <<>> THEN <<t>>
  ELSE IF Lt(Zero, Sub(sorted[Len(sorted)].rate, t.rate))
    THEN Append(Insert(SubSeq(sorted, 1, Len(sorted) - 1), t), sorted[Len(sorted)])
  ELSE Append(sorted, t)

RECURSIVE SortByRate(_)
SortByRate(ts) ==
  IF ts = <<>> THEN <<>>
  ELSE Insert(SortByRate(SubSeq(ts, 1, Len(ts) - 1)), ts[Len(ts)])

IsIndexEntry(t) == IsIndexKey(t.rate)
IsNamedEntry(t) == ~IsIndexKey(t.rate)

\* Object.values: the integer-like keys in ascending order, then the other
\* keys in the order of their creation
ObjectValues(taxMap) ==
  SortByRate(SelectSeq(taxMap, IsIndexEntry)) \o SelectSeq(taxMap, IsNamedEntry)

\* Bracket with the CGST and SGST halves computed for every invoice
Bracket_AlwaysHalves(t, isInterState) ==
  [rate |-> t.rate,
   taxable |-> Round2(t.taxable),
   cgst |-> Round2(DivInt(t.tax, 2)),
   sgst |-> Round2(DivInt(t.tax, 2)),
   igst |-> IF isInterState THEN Round2(t.tax) ELSE Zero]

\* one entry of taxBreakdown
Bracket(t, isInterState) ==
  [rate |-> t.rate,
   taxable |-> Round2(t.taxable),
   cgst |-> IF isInterState THEN Zero ELSE Round2(DivInt(t.tax, 2)),
   sgst |-> IF isInterState THEN Zero ELSE Round2(DivInt(t.tax, 2)),
   igst |-> IF isInterState THEN Round2(t.tax) ELSE Zero]

Enrich(it) ==
  [quantity |-> it.quantity, rate |-> it.rate, discount |-> it.discount,
   discountType |-> it.discountType, gstRate |-> it.gstRate,
   calc |-> calcLineItem(it)]

\* the tax map emitted in the order of its keys, never sorted by rate
taxBreakdownOf_Unsorted(lineItems, isInterState) ==
  LET values == ObjectValues(TaxMapOf(lineItems))
  IN [j \in 1..Len(values) |-> Bracket(values[j], isInterState)]

\* taxBreakdown: the brackets of the tax map, sorted by rate
taxBreakdownOf(lineItems, isInterState) ==
  LET sorted == SortByRate(ObjectValues(TaxMapOf(lineItems)))
  IN [j \in 1..Len(sorted) |-> Bracket(sorted[j], isInterState)]

\* the grand total rounded to 2 decimals whatever the roundOff flag says
roundedTotalOf_NeverWhole(grandTotal, roundOff) == Round2(grandTotal)

\* roundedTotal with Math.floor in place of Math.round
roundedTotalOf_Floor(grandTotal, roundOff) ==
  IF roundOff
  THEN (IF IsNum(grandTotal) THEN Num(100 * (grandTotal.p \div 100), 0) ELSE NaN)
  ELSE Round2(grandTotal)

\* roundedTotal: the nearest whole unit when roundOff is on, 2 decimals
\* otherwise
roundedTotalOf(grandTotal, roundOff) ==
  IF roundOff THEN MathRound(grandTotal) ELSE Round2(grandTotal)

\* the items of the input, each with its calc attached in place
itemsAfterMap_InPlace(items) == [i \in 1..Len(items) |-> Enrich(items[i])]

\* inv.items once map has run: the spread builds a new record for every
\* item and map a new array, so the items of the input are as they were
itemsAfterMap(items) == items

NoTotals == [threw |-> TRUE]

calcInvoiceTotals(in) ==
  LET isInterState == in.sellerState # in.placeOfSupply
      cur == IF in.currency # "" THEN in.currency ELSE "INR"
      lineItems == [i \in 1..Len(in.items) |-> Enrich(in.items[i])]
      subtotal == Reduce([i \in 1..Len(lineItems) |-> lineItems[i].calc.subtotal])
      totalDiscount == Reduce([i \in 1..Len(lineItems) |-> lineItems[i].calc.discountAmt])
      totalTaxable == Reduce([i \in 1..Len(lineItems) |-> lineItems[i].calc.taxableValue])
      taxBreakdown == taxBreakdownOf(lineItems, isInterState)
      totalTax == Reduce([i \in 1..Len(lineItems) |-> lineItems[i].calc.gstAmt])
      totalCGST == IF isInterState THEN Zero ELSE Round2(DivInt(totalTax, 2))
      totalSGST == IF isInterState THEN Zero ELSE Round2(DivInt(totalTax, 2))
      totalIGST == IF isInterState THEN Round2(totalTax) ELSE Zero
      shipping == OrZero(parseFloat(in.shippingCharge))
      grandTotal == Add(Add(totalTaxable, totalTax), shipping)
      roundedTotal == roundedTotalOf(grandTotal, in.roundOff)
      roundOffAmt == Round2(Sub(roundedTotal, grandTotal))
      words == numberToWords(roundedTotal, cur)
  IN IF words.threw THEN NoTotals
     ELSE [threw |-> FALSE,
           lineItems |-> lineItems, currency |-> cur,
           subtotal |-> Round2(subtotal),
           totalDiscount |-> Round2(totalDiscount),
           totalTaxable |-> Round2(totalTaxable),
           isInterState |-> isInterState, taxBreakdown |-> taxBreakdown,
           totalCGST |-> totalCGST, totalSGST |-> totalSGST,
           totalIGST |-> totalIGST,
           totalTax |-> Round2(totalTax),
           shippingCharge |-> shipping,
           grandTotal |-> Round2(grandTotal),
           roundedTotal |-> roundedTotal, roundOffAmt |-> roundOffAmt,
           amountInWords |-> words.w]

\* ------------------------------------------------------------------------
\* The totals rows of the preview (App.js) and of the exporters
\* (invoiceExport.js)
\* ------------------------------------------------------------------------
\* one row of a totals section: its label, the percentage after "@" (0 when
\* the label has none), the amount it is given and what it displays of it:
\* the text of formatINR, with a leading "-" for how = "minus", or the
\* number itself in a spreadsheet cell
Row(label, at, amount, how) ==
  [label |-> label, at |-> at, amount |-> amount,
   display |-> IF how = "number" THEN [number |-> amount]
               ELSE [sign |-> IF how = "minus" THEN "-" ELSE "",
                     text |-> formatINR(amount, NotPassed)]]

RECURSIVE Concat(_)
Concat(ss) ==
  IF ss = <<>> THEN <<>>
  ELSE Concat(SubSeq(ss, 1, Len(ss) - 1)) \o ss[Len(ss)]

\* the rows of one bracket: IGST @ rate%, or CGST and SGST @ rate / 2 %
TaxRows(t, isInterState, how) ==
  IF isInterState THEN <<Row("IGST", t.rate, t.igst, how)>>
  ELSE <<Row("CGST", DivInt(t.rate, 2), t.cgst, how),
         Row("SGST", DivInt(t.rate, 2), t.sgst, how)>>

\* the totals of InvoicePreview
InvoicePreview(in, tot) ==
  <<Row("Subtotal", Zero, tot.totalTaxable, "text")>>
  \o (IF Lt(Zero, tot.totalDiscount)
      THEN <<Row("Discount", Zero, tot.totalDiscount, "minus")>> ELSE <<>>)
  \o Concat([j \in 1..Len(tot.taxBreakdown) |->
               IF Lt(Zero, tot.taxBreakdown[j].rate)
               THEN TaxRows(tot.taxBreakdown[j], tot.isInterState, "text")
               ELSE <<>>])
  \o (IF Lt(Zero, tot.shippingCharge)
      THEN <<Row("Shipping", Zero, tot.shippingCharge, "text")>> ELSE <<>>)
  \o (IF in.roundOff /\ ~StrictEq(tot.roundOffAmt, Zero)
      THEN <<Row("Round Off", Zero, tot.roundOffAmt, "text")>> ELSE <<>>)
  \o <<Row("Total", Zero, tot.roundedTotal, "text")>>

\* the tax rows of an exporter: a bracket of rate 0 is left out
ExportTaxRows(tot, how) ==
  Concat([j \in 1..Len(tot.taxBreakdown) |->
            IF StrictEq(tot.taxBreakdown[j].rate, Zero) THEN <<>>
            ELSE TaxRows(tot.taxBreakdown[j], tot.isInterState, how)])

\* the totals section of exportPDF
exportPDF(in, tot) ==
  <<Row("Subtotal", Zero, tot.totalTaxable, "text")>>
  \o ExportTaxRows(tot, "text")
  \o (IF Lt(Zero, tot.shippingCharge)
      THEN <<Row("Shipping", Zero, tot.shippingCharge, "text")>> ELSE <<>>)
  \o (IF in.roundOff /\ ~StrictEq(tot.roundOffAmt, Zero)
      THEN <<Row("Round Off", Zero, tot.roundOffAmt, "text")>> ELSE <<>>)
  \o <<Row("TOTAL", Zero, tot.roundedTotal, "text")>>

\* the totals rows of exportDOCX
exportDOCX(in, tot) ==
  <<Row("Subtotal", Zero, tot.totalTaxable, "text")>>
  \o ExportTaxRows(tot, "text")
  \o <<Row("TOTAL", Zero, tot.roundedTotal, "text")>>

\* the totals rows of the sheet of exportExcel
exportExcel(in, tot) ==
  <<Row("Subtotal", Zero, tot.totalTaxable, "number")>>
  \o ExportTaxRows(tot, "number")
  \o (IF Lt(Zero, tot.shippingCharge)
      THEN <<Row("Shipping", Zero, tot.shippingCharge, "number")>> ELSE <<>>)
  \o <<Row("TOTAL", Zero, tot.roundedTotal, "number")>>

\* ------------------------------------------------------------------------
\* Invoices
\* ------------------------------------------------------------------------
It(q, r, d, ty, g) ==
  [quantity |-> q, rate |-> r, discount |-> d, discountType |-> ty, gstRate |-> g]

\* a jurisdiction code: a string, or the same digits held as a number
Code(type, text) == [type |-> type, text |-> text]

ItemPool ==
  { It(Whole(1), Zero, Zero, "percent", Whole(18)),
    It(Whole(1), Whole(1), Zero, "percent", Whole(5)),
    It(Whole(2), Whole(500), Whole(10), "percent", Whole(18)),
    It(Whole(1), Whole(1000), Whole(1500), "flat", Zero),
    It(Whole(1), Paise(1), Whole(50), "percent", Whole(18)),
    It(Whole(MaxQty), Paise(25), Zero, "undef", Whole(5)),
    It(Whole(1), Whole(10), Whole(150), "percent", Whole(12)),
    It(Undefined, Whole(100), Zero, "percent", Whole(18)),
    It(Whole(1), Whole(10), Undefined, "flat", Undefined),
    It(Whole(1), Paise(1234), Str, "percent", Whole(28)),
    It(Whole(1), Whole(10), Zero, "percent", Paise(250)) }

RECURSIVE SeqsUpTo(_, _)
SeqsUpTo(S, n) ==
  IF n = 0 THEN {<<>>}
  ELSE LET shorter == SeqsUpTo(S, n - 1)
       IN shorter \cup {Append(s, x) : s \in shorter, x \in S}

ItemLists == SeqsUpTo(ItemPool, MaxItems) \ {<<>>}

ShippingCharges ==
  {Zero, Paise(40), Paise(123450), Milli(5), Whole(0 - 5), NumStr(1250, 0),
   Undefined, Str}

\* two supported codes, a code that CURRENCIES does not list, and no code
Currencies == {"INR", "USD", "XYZ", ""}

\* one item of 0.25 for each rate above 0 of the GST dropdown, in the order
\* of the dropdown: the invoices of one to four tax brackets
SlabItems ==
  << It(Whole(1), Paise(25), Zero, "percent", Whole(5)),
     It(Whole(1), Paise(25), Zero, "percent", Whole(12)),
     It(Whole(1), Paise(25), Zero, "percent", Whole(18)),
     It(Whole(1), Paise(25), Zero, "percent", Whole(28)) >>

SlabLists == {SubSeq(SlabItems, 1, k) : k \in 1..Len(SlabItems)}

\* items whose percent discount is above 100: 150% of 0.01 and 100.1% of 1.00
OverDiscounted ==
  { It(Whole(1), Paise(1), Whole(150), "percent", Whole(18)),
    It(Whole(1), Whole(1), Paise(10010), "percent", Whole(5)) }

\* every list of items under every shipping charge and rounding mode, and
\* under every pair of jurisdictions and currency; and one item per tax slab
Invoices ==
  [sellerState : {Code("string", "27")},
   placeOfSupply : {Code("string", "27"), Code("string", "07")},
   currency : {"INR"},
   items : ItemLists,
   shippingCharge : ShippingCharges,
   roundOff : BOOLEAN]
  \cup
  [sellerState : {Code("string", "27"), Code("string", "07")},
   placeOfSupply : {Code("string", "27"), Code("string", "07"), Code("number", "27")},
   currency : Currencies,
   items : ItemLists,
   shippingCharge : {Zero},
   roundOff : BOOLEAN]
  \cup
  [sellerState : {Code("string", "27")},
   placeOfSupply : {Code("string", "27"), Code("string", "07")},
   currency : {"INR"},
   items : SlabLists \cup {<<it>> : it \in OverDiscounted},
   shippingCharge : {Zero},
   roundOff : BOOLEAN]

NoInvoice ==
  [sellerState |-> Code("string", "27"), placeOfSupply |-> Code("string", "27"),
   currency |-> "INR", items |-> <<>>, shippingCharge |-> Zero, roundOff |-> TRUE]

\* no formatting function has been called
NoWords == [threw |-> FALSE, w |-> <<>>]
NoFormatted == [symbol |-> "", locale |-> "", minus |-> FALSE, groups |-> <<>>, cents |-> 0]
NoText == amt = Zero /\ ccy = "" /\ spoken = NoWords /\ formatted = NoFormatted

\* no form is mounted, nothing is rendered and nothing is exported
NoOp == [name |-> "none", idx |-> 0]
NotExported == [pdf |-> <<>>, docx |-> <<>>, excel |-> <<>>]
\* getItem returns null: nothing is kept under SAVE_KEY
NoData == [null |-> TRUE]
NoStored == [data |-> NoData, failed |-> FALSE]
NoForm == op = NoOp /\ shown = <<>> /\ exported = NotExported /\ stored = NoStored

\* ------------------------------------------------------------------------
\* Specification of calcLineItem: one call on an arbitrary item
\* ------------------------------------------------------------------------
LineInit ==
  /\ item \in Items
  /\ calc = NoCalc
  /\ inv = NoInvoice
  /\ totals = NoTotals
  /\ pc = "call"
  /\ NoText
  /\ NoForm

CalcLineItem ==
  /\ pc = "call"
  /\ calc' = calcLineItem(item)
  /\ pc' = "returned"
  /\ UNCHANGED <<item, inv, totals>>
  /\ UNCHANGED <<textVars, formVars>>

LineNext == CalcLineItem

LineSpec == LineInit /\ [][LineNext]_vars

\* ------------------------------------------------------------------------
\* Specification of calcInvoiceTotals: one call on an arbitrary invoice
\* ------------------------------------------------------------------------
TotalsInit ==
  /\ inv \in Invoices
  /\ item = NoItem
  /\ calc = NoCalc
  /\ totals = NoTotals
  /\ pc = "call"
  /\ NoText
  /\ NoForm

CalcInvoiceTotals ==
  /\ pc = "call"
  /\ totals' = calcInvoiceTotals(inv)
  /\ inv' = [inv EXCEPT !.items = itemsAfterMap(@)]
  /\ pc' = IF totals'.threw THEN "threw" ELSE "returned"
  /\ UNCHANGED <<item, calc>>
  /\ UNCHANGED <<textVars, formVars>>

TotalsNext == CalcInvoiceTotals

TotalsSpec == TotalsInit /\ [][TotalsNext]_vars

\* ------------------------------------------------------------------------
\* Specifications of numberToWords and of formatCurrency: one call on an
\* arbitrary amount and currency code
\* ------------------------------------------------------------------------
\* the supported codes, a code that is not supported, the empty string and
\* no argument at all; a code is never the name of a property that every
\* object inherits
CurrencyCodes ==
  {CURRENCIES[i].code : i \in 1..Len(CURRENCIES)} \cup {"XYZ", "", NotPassed}

\* amounts on both sides of every branch of c, in hundredths
WordAmounts ==
  {Paise(h) : h \in {0, 30, 40, 50, 100, 1900, 2000, 2100, 9900, 10000, 10100,
                     99900, 100000, 100500, 110500, 123450, 9999900, 10000000,
                     10000500, 123456700, 1000000000, 2109900500,
                     0 - 40, 0 - 123450}} \cup {NaN}

\* amounts of either sign, with up to three decimals, in thousandths
FormatAmounts ==
  {Milli(t) : t \in {0, 4, 5, 400, 1000, 999990, 999995, 1234500, 100000000,
                     1234567890, 0 - 1, 0 - 5, 0 - 400, 0 - 1234500,
                     0 - 1234567890}}

WordsInit ==
  /\ amt \in WordAmounts
  /\ ccy \in CurrencyCodes
  /\ spoken = NoWords
  /\ formatted = NoFormatted
  /\ item = NoItem
  /\ calc = NoCalc
  /\ inv = NoInvoice
  /\ totals = NoTotals
  /\ pc = "call"
  /\ NoForm

NumberToWords ==
  /\ pc = "call"
  /\ spoken' = numberToWords(amt, ccy)
  /\ pc' = IF spoken'.threw THEN "threw" ELSE "returned"
  /\ UNCHANGED <<item, calc, inv, totals, amt, ccy, formatted, formVars>>

WordsNext == NumberToWords

WordsSpec == WordsInit /\ [][WordsNext]_vars

FormatInit ==
  /\ amt \in FormatAmounts
  /\ ccy \in CurrencyCodes
  /\ spoken = NoWords
  /\ formatted = NoFormatted
  /\ item = NoItem
  /\ calc = NoCalc
  /\ inv = NoInvoice
  /\ totals = NoTotals
  /\ pc = "call"
  /\ NoForm

FormatCurrency ==
  /\ pc = "call"
  /\ formatted' = formatCurrency(amt, ccy)
  /\ pc' = "returned"
  /\ UNCHANGED <<item, calc, inv, totals, amt, ccy, spoken, formVars>>

FormatNext == FormatCurrency

FormatSpec == FormatInit /\ [][FormatNext]_vars

\* ------------------------------------------------------------------------
\* Specification of the renderers: the preview and the three exporters, each
\* run once on one invoice and the totals computed for it (App.js:262)
\* ------------------------------------------------------------------------
RenderPool ==
  { It(Whole(1), Zero, Zero, "percent", Whole(18)),
    It(Whole(1), Whole(1), Zero, "percent", Whole(5)),
    It(Whole(2), Whole(500), Whole(10), "percent", Whole(18)),
    It(Whole(MaxQty), Paise(25), Zero, "percent", Zero) }

RenderInvoices ==
  [sellerState : {Code("string", "27")},
   placeOfSupply : {Code("string", "27"), Code("string", "07")},
   currency : {"INR"},
   items : SeqsUpTo(RenderPool, MaxItems) \ {<<>>},
   shippingCharge : {Zero, Paise(40), Whole(50)},
   roundOff : BOOLEAN]

RenderInit ==
  /\ inv \in RenderInvoices
  /\ totals = calcInvoiceTotals(inv)
  /\ pc = "render"
  /\ op = NoOp
  /\ shown = <<>>
  /\ exported = NotExported
  /\ stored = NoStored
  /\ item = NoItem
  /\ calc = NoCalc
  /\ NoText

Preview ==
  /\ pc = "render"
  /\ shown = <<>>
  /\ shown' = InvoicePreview(inv, totals)
  /\ UNCHANGED <<item, calc, inv, totals, pc, textVars, op, exported, stored>>

ExportPDF ==
  /\ pc = "render"
  /\ exported.pdf = <<>>
  /\ exported' = [exported EXCEPT !.pdf = exportPDF(inv, totals)]
  /\ UNCHANGED <<item, calc, inv, totals, pc, textVars, op, shown, stored>>

ExportDOCX ==
  /\ pc = "render"
  /\ exported.docx = <<>>
  /\ exported' = [exported EXCEPT !.docx = exportDOCX(inv, totals)]
  /\ UNCHANGED <<item, calc, inv, totals, pc, textVars, op, shown, stored>>

ExportExcel ==
  /\ pc = "render"
  /\ exported.excel = <<>>
  /\ exported' = [exported EXCEPT !.excel = exportExcel(inv, totals)]
  /\ UNCHANGED <<item, calc, inv, totals, pc, textVars, op, shown, stored>>

RenderNext == Preview \/ ExportPDF \/ ExportDOCX \/ ExportExcel

RenderSpec == RenderInit /\ [][RenderNext]_vars

\* ------------------------------------------------------------------------
\* Specification of the form (App and ItemsEditor of App.js): the item list
\* edited from the default invoice.  A handler that sets the state returns
\* first (pc = "render"); React then renders the form again, which computes
\* the totals and the preview (pc = "effect"), and then runs the effect that
\* saves the invoice (pc = "form").
\* ------------------------------------------------------------------------
createEmptyItem == It(Whole(1), Zero, Zero, "percent", Whole(18))

DEFAULT_INVOICE ==
  [sellerState |-> Code("string", "27"), placeOfSupply |-> Code("string", "27"),
   currency |-> "INR", items |-> <<createEmptyItem>>, shippingCharge |-> Zero,
   roundOff |-> TRUE]

\* what the number fields and the GST select of an item row can hold
FormValues ==
  [quantity |-> {Whole(1), Whole(MaxQty)},
   rate |-> {Zero, Paise(10050)},
   gstRate |-> {Whole(5), Whole(18)}]

\* remove that hands the filtered list to onChange whatever its length
remove_Unguarded(items, idx) ==
  [called |-> TRUE,
   items |-> SubSeq(items, 1, idx - 1) \o SubSeq(items, idx + 1, Len(items))]

\* remove(idx): whether onChange is called, and the list after the handler;
\* idx counts from 1
remove(items, idx) ==
  IF Len(items) > 1
  THEN [called |-> TRUE,
        items |-> SubSeq(items, 1, idx - 1) \o SubSeq(items, idx + 1, Len(items))]
  ELSE [called |-> FALSE, items |-> items]

\* a value as JSON.parse(JSON.stringify(v)) gives it back: NaN comes back
\* as null
Null == [k |-> "null", p |-> 0, f |-> 0]
JSONValue(v) == IF v.k = "nan" THEN Null ELSE v

\* JSON.stringify(d): the text, held as the values that JSON.parse reads
\* from it; a property that is undefined is not written
JSONstringify(d) ==
  [d EXCEPT !.shippingCharge = JSONValue(@),
            !.items = [i \in 1..Len(@) |->
                         [field \in DOMAIN @[i] |->
                            IF field = "discountType" THEN @[i][field]
                            ELSE JSONValue(@[i][field])]]]

\* load(): null when nothing is stored, or the stored invoice spread over
\* DEFAULT_INVOICE, whose value stands for a property that was not written
load(text) ==
  IF text = NoData THEN NoData
  ELSE [text EXCEPT !.shippingCharge =
                      IF @ = Undefined THEN DEFAULT_INVOICE.shippingCharge ELSE @]

\* save(d): setItem replaces the text, or throws and leaves it; the
\* exception is caught and dropped
save(store, d, throws) ==
  IF throws THEN [store EXCEPT !.failed = TRUE]
  ELSE [data |-> JSONstringify(d), failed |-> FALSE]

\* the first session of a browser that has stored nothing
AppInit ==
  /\ inv = DEFAULT_INVOICE
  /\ totals = NoTotals
  /\ shown = <<>>
  /\ pc = "render"
  /\ op = [name |-> "mount", idx |-> 0]
  /\ exported = NotExported
  /\ stored = NoStored
  /\ item = NoItem
  /\ calc = NoCalc
  /\ NoText

\* one render of App: the totals and the preview of the invoice
Rerender ==
  /\ pc = "render"
  /\ totals' = calcInvoiceTotals(inv)
  /\ shown' = IF totals'.threw THEN <<>> ELSE InvoicePreview(inv, totals')
  /\ pc' = IF totals'.threw THEN "threw" ELSE "effect"
  /\ UNCHANGED <<item, calc, inv, textVars, op, exported, stored>>

\* useEffect(() => { save(inv); }, [inv]); a write that follows a failed
\* write goes through
Save ==
  /\ pc = "effect"
  /\ \E throws \in BOOLEAN :
       /\ throws => ~stored.failed
       /\ stored' = save(stored, inv, throws)
  /\ pc' = "form"
  /\ UNCHANGED <<item, calc, inv, totals, textVars, op, shown, exported>>

\* a new session: App is mounted again with what load() returns
Mount ==
  /\ pc = "form"
  /\ inv' = IF load(stored.data) = NoData THEN DEFAULT_INVOICE
            ELSE load(stored.data)
  /\ op' = [name |-> "mount", idx |-> 0]
  /\ pc' = "render"
  /\ UNCHANGED <<item, calc, totals, textVars, shown, exported, stored>>

AddItem ==
  /\ pc = "form"
  /\ Len(inv.items) < MaxItems
  /\ inv' = [inv EXCEPT !.items = Append(@, createEmptyItem)]
  /\ op' = [name |-> "add", idx |-> 0]
  /\ pc' = "render"
  /\ UNCHANGED <<item, calc, totals, textVars, shown, exported, stored>>

RemoveItem ==
  /\ pc = "form"
  /\ \E idx \in 1..Len(inv.items) :
       /\ inv' = [inv EXCEPT !.items = remove(@, idx).items]
       /\ op' = [name |-> "remove", idx |-> idx]
       /\ pc' = IF remove(inv.items, idx).called THEN "render" ELSE "form"
  /\ UNCHANGED <<item, calc, totals, textVars, shown, exported, stored>>

UpdateItem ==
  /\ pc = "form"
  /\ \E idx \in 1..Len(inv.items), field \in DOMAIN FormValues :
       \E val \in FormValues[field] :
         /\ inv' = [inv EXCEPT !.items[idx][field] = val]
         /\ op' = [name |-> "update", idx |-> 0]
  /\ pc' = "render"
  /\ UNCHANGED <<item, calc, totals, textVars, shown, exported, stored>>

\* handleReset: window.confirm answers confirmed
Reset ==
  /\ pc = "form"
  /\ \E confirmed \in BOOLEAN :
       /\ inv' = IF confirmed
                 THEN [DEFAULT_INVOICE EXCEPT !.items = <<createEmptyItem>>]
                 ELSE inv
       /\ op' = [name |-> IF confirmed THEN "reset" ELSE "resetDeclined",
                 idx |-> 0]
       /\ pc' = IF confirmed THEN "render" ELSE "form"
  /\ UNCHANGED <<item, calc, totals, textVars, shown, exported, stored>>

AppNext ==
  Rerender \/ Save \/ Mount \/ AddItem \/ RemoveItem \/ UpdateItem \/ Reset

AppSpec == AppInit /\ [][AppNext]_vars

\* ------------------------------------------------------------------------
\* Properties of calcLineItem (LineSpec)
\* ------------------------------------------------------------------------
NonNeg(v) == IsNum(v) /\ v.p >= 0

\* every numeric field of the item is a non-negative number
NumericItem(it) ==
  /\ NonNeg(it.quantity)
  /\ NonNeg(it.rate)
  /\ NonNeg(it.discount)
  /\ NonNeg(it.gstRate)

\* C1: for an item with non-negative quantity, rate and discount, the
\* returned fields reconcile: taxableValue = subtotal - discountAmt.
C1_FieldsReconcile ==
  (pc = "returned" /\ NumericItem(item))
    => calc.taxableValue = Sub(calc.subtotal, calc.discountAmt)

\* C2: for a "flat" item with non-negative inputs, discountAmt is the smaller
\* of discount and subtotal, rounded; taxableValue, gstAmt and total are never
\* negative, and all three are 0 once discount >= subtotal.
C2_FlatDiscountClamped ==
  (pc = "returned" /\ item.discountType = "flat" /\ NumericItem(item))
    => LET sub == Mul(item.quantity, item.rate)
       IN /\ calc.discountAmt = IF Lt(sub, item.discount) THEN Round2(sub)
                                ELSE Round2(item.discount)
          /\ NonNeg(calc.taxableValue)
          /\ NonNeg(calc.gstAmt)
          /\ NonNeg(calc.total)
          /\ ~Lt(item.discount, sub)
               => /\ calc.taxableValue = Zero
                  /\ calc.gstAmt = Zero
                  /\ calc.total = Zero

\* a flat discount of 1500 on a subtotal of 1000 has been clamped to 1000
C2_Witness ==
  /\ pc = "returned"
  /\ item = [quantity |-> Whole(1), rate |-> Whole(1000), discount |-> Whole(1500),
             discountType |-> "flat", gstRate |-> Zero]
  /\ calc.discountAmt = Whole(1000)
  /\ calc.taxableValue = Zero

\* the item with 0 in place of every numeric field that is not a number
ZeroFilled(it) ==
  [quantity |-> IF IsNum(it.quantity) THEN it.quantity ELSE Zero,
   rate |-> IF IsNum(it.rate) THEN it.rate ELSE Zero,
   discount |-> IF IsNum(it.discount) THEN it.discount ELSE Zero,
   discountType |-> it.discountType,
   gstRate |-> IF IsNum(it.gstRate) THEN it.gstRate ELSE Zero]

\* C5: a missing or non-numeric quantity, rate, discount or gstRate counts
\* as 0: the five returned fields are those of the item with 0 in its place,
\* and none of them is NaN.
C5_ZeroSubstituted ==
  pc = "returned"
    => /\ calc = calcLineItem(ZeroFilled(item))
       /\ \A fld \in DOMAIN calc : IsNum(calc[fld])

\* C10: for an item with non-negative inputs, the returned fields satisfy
\* gstAmt = round2(taxableValue * gstRate / 100) and
\* total = taxableValue + gstAmt.
C10_GstAndTotalFromReturnedFields ==
  (pc = "returned" /\ NumericItem(item))
    => /\ calc.gstAmt = Round2(Mul(calc.taxableValue, DivInt(item.gstRate, 100)))
       /\ calc.total = Add(calc.taxableValue, calc.gstAmt)

\* ------------------------------------------------------------------------
\* Properties of calcInvoiceTotals (TotalsSpec)
\* ------------------------------------------------------------------------
\* C3: roundedTotal - grandTotal = roundOffAmt on the returned fields, with
\* roundOff on and off and for every shippingCharge.
C3_RoundOffAmtExact ==
  pc = "returned"
    => Sub(totals.roundedTotal, totals.grandTotal) = totals.roundOffAmt

\* C4: calcInvoiceTotals never raises an exception: every call on an invoice
\* with at least one item returns a totals object.
C4_NeverThrows == pc # "threw"

\* C6: the returned shippingCharge is a non-negative number, and 0 when the
\* input is not a number.
C6_ShippingNonNegative ==
  pc = "returned"
    => /\ NonNeg(totals.shippingCharge)
       /\ ~IsNum(parseFloat(inv.shippingCharge)) => totals.shippingCharge = Zero

\* C7: the printed rows add up to the printed total: totalTaxable + the
\* CGST and SGST (or IGST) of every bracket + shippingCharge + roundOffAmt
\* = roundedTotal.
C7_RowsReconcileToTotal ==
  pc = "returned"
    => LET tb == totals.taxBreakdown
           taxRows == Reduce([j \in 1..Len(tb) |->
                        IF totals.isInterState THEN tb[j].igst
                        ELSE Add(tb[j].cgst, tb[j].sgst)])
       IN Add(Add(Add(totals.totalTaxable, taxRows), totals.shippingCharge),
              totals.roundOffAmt) = totals.roundedTotal

\* C8: the taxable amounts of the tax brackets add up to totalTaxable.
C8_BracketTaxableSumsToTotal ==
  pc = "returned"
    => LET tb == totals.taxBreakdown
       IN Reduce([j \in 1..Len(tb) |-> tb[j].taxable]) = totals.totalTaxable

\* two items of one GST rate have been added up into a single bracket
C8_Witness ==
  /\ pc = "returned"
  /\ Len(totals.lineItems) = 2
  /\ Len(totals.taxBreakdown) = 1
  /\ \A i \in 1..2 : Lt(Zero, totals.lineItems[i].calc.taxableValue)
  /\ Lt(totals.lineItems[1].calc.taxableValue, totals.taxBreakdown[1].taxable)

\* C9: isInterState holds exactly when sellerState and placeOfSupply are not
\* strictly equal; an inter-state invoice has cgst = sgst = 0 in every bracket
\* and totalCGST = totalSGST = 0, any other has igst = 0 in every bracket and
\* totalIGST = 0; every bracket carries all three fields.
C9_JurisdictionSplit ==
  pc = "returned"
    => /\ totals.isInterState <=> (inv.sellerState # inv.placeOfSupply)
       /\ \A j \in 1..Len(totals.taxBreakdown) :
            LET t == totals.taxBreakdown[j]
            IN /\ {"cgst", "sgst", "igst"} \subseteq DOMAIN t
               /\ totals.isInterState => (t.cgst = Zero /\ t.sgst = Zero)
               /\ ~totals.isInterState => t.igst = Zero
       /\ totals.isInterState
            => (totals.totalCGST = Zero /\ totals.totalSGST = Zero)
       /\ ~totals.isInterState => totals.totalIGST = Zero

\* an inter-state invoice whose bracket carries its whole tax as IGST
C9_Witness ==
  /\ pc = "returned"
  /\ inv.sellerState # inv.placeOfSupply
  /\ totals.isInterState
  /\ \E j \in 1..Len(totals.taxBreakdown) :
       Lt(Zero, totals.taxBreakdown[j].igst)
  /\ Lt(Zero, totals.totalIGST)

\* the total of gstAmt over the line items that carry the rate of bracket t
BracketTax(lineItems, t) ==
  Reduce([i \in 1..Len(lineItems) |->
            IF Key(lineItems[i].gstRate) = Key(t.rate)
            THEN lineItems[i].calc.gstAmt ELSE Zero])

\* C11: with T the sum of gstAmt over the items of a bracket, an intra-state
\* bracket has cgst = sgst and cgst + sgst = T (each is half of T), and an
\* inter-state bracket has igst = T and cgst = sgst = 0.
C11_BracketSplitsTax ==
  pc = "returned"
    => \A j \in 1..Len(totals.taxBreakdown) :
         LET t == totals.taxBreakdown[j]
             T == BracketTax(totals.lineItems, t)
         IN IF totals.isInterState
            THEN t.igst = T /\ t.cgst = Zero /\ t.sgst = Zero
            ELSE t.cgst = t.sgst /\ Add(t.cgst, t.sgst) = T /\ t.cgst = DivInt(T, 2)

\* the sequence s rearranged by the permutation f of its indices
Permuted(s, f) == [i \in 1..Len(s) |-> s[f[i]]]

\* C12: taxBreakdown holds exactly one bracket for each distinct gstRate that
\* an item carries and none for any other rate, in strictly ascending order of
\* rate, and it is the same list for every permutation of the items (whose
\* line items are the line items of the invoice in the permuted order).
C12_OneBracketPerRateAscending ==
  pc = "returned"
    => LET tb == totals.taxBreakdown
           li == totals.lineItems
       IN /\ \A i \in 1..Len(li) : \E j \in 1..Len(tb) : tb[j].rate = li[i].gstRate
          /\ \A j \in 1..Len(tb) : \E i \in 1..Len(li) : li[i].gstRate = tb[j].rate
          /\ \A j, k \in 1..Len(tb) : j < k => Lt(tb[j].rate, tb[k].rate)
          /\ \A f \in Permutations(1..Len(li)) :
               taxBreakdownOf(Permuted(li, f), totals.isInterState) = tb

\* two brackets, the item of the higher rate first, one rate not a whole number
C12_Witness ==
  /\ pc = "returned"
  /\ Len(totals.taxBreakdown) = 2
  /\ Len(inv.items) = 2
  /\ Lt(inv.items[2].gstRate, inv.items[1].gstRate)
  /\ inv.items[2].gstRate = Paise(250)
  /\ totals.taxBreakdown[1].rate = Paise(250)

\* the grand total before any rounding, from the returned rows
UnroundedGrandTotal ==
  Add(Add(Reduce([i \in 1..Len(totals.lineItems) |->
                    totals.lineItems[i].calc.taxableValue]),
          Reduce([i \in 1..Len(totals.lineItems) |->
                    totals.lineItems[i].calc.gstAmt])),
      totals.shippingCharge)

\* C13: with roundOff on, roundedTotal is the whole unit nearest to the
\* unrounded grand total, an exact .50 going up (1234.50 gives 1235 and a
\* roundOffAmt of 0.50); with roundOff off it is the grand total rounded to
\* 2 decimals.
C13_RoundingPolicy ==
  pc = "returned"
    => LET g == UnroundedGrandTotal
           r == totals.roundedTotal
       IN IF inv.roundOff
          THEN /\ r.p % 100 = 0 /\ r.f = 0
               /\ Lt(Sub(g, Paise(50)), r)
               /\ ~Lt(Add(g, Paise(50)), r)
               /\ g = Paise(123450)
                    => r = Whole(1235) /\ totals.roundOffAmt = Paise(50)
          ELSE /\ r.f = 0
               /\ Lt(Sub(g, Milli(5)), r)
               /\ ~Lt(Add(g, Milli(5)), r)

C13_Witness ==
  /\ pc = "returned"
  /\ inv.roundOff
  /\ UnroundedGrandTotal = Paise(123450)
  /\ totals.roundedTotal = Whole(1235)
  /\ totals.roundOffAmt = Paise(50)

\* ------------------------------------------------------------------------
\* Properties of numberToWords and of formatCurrency
\* ------------------------------------------------------------------------
\* the spoken name of a currency code, "Rupees" for a code not in the lookup
SpokenName(code) ==
  IF code \in DOMAIN currencyNames THEN currencyNames[code] ELSE "Rupees"

\* C14: numberToWords(0, c) is "<CurrencyName> Zero Only" for every code c,
\* the name being "Rupees" for a code not in the lookup or not given.
C14_ZeroInWords ==
  (pc = "returned" /\ amt = Zero)
    => spoken.w = <<SpokenName(ccy), "Zero", "Only">>

C14_Witness ==
  /\ pc = "returned"
  /\ amt = Zero
  /\ ccy = "USD"
  /\ spoken.w = <<"Dollars", "Zero", "Only">>

\* a currency name, at least one word of amount, "Only"
WellFormedWords(w, code) ==
  /\ Len(w) >= 3
  /\ w[1] = SpokenName(code)
  /\ w[Len(w)] = "Only"
  /\ \A i \in 2..(Len(w) - 1) : w[i] # ""

\* C15: for every non-negative amount that calcInvoiceTotals passes, whole
\* with roundOff on and of two decimals with roundOff off, amounts between
\* 0 and 0.50 included, amountInWords is "<CurrencyName> <Words> Only" with
\* Words not empty ("Zero" for the amount 0).
C15_WordsNeverEmpty ==
  (pc = "returned" /\ NonNeg(totals.roundedTotal))
    => /\ WellFormedWords(totals.amountInWords, totals.currency)
       /\ totals.roundedTotal = Zero
            => totals.amountInWords = <<SpokenName(totals.currency), "Zero", "Only">>

\* the codes of the supported currencies
SupportedCodes == {CURRENCIES[i].code : i \in 1..Len(CURRENCIES)}

\* C16: the returned currency is "INR" when the currency of the invoice is
\* absent, empty or not a supported code, and the code of the invoice when it
\* is supported.
C16_CurrencyDefaultsToBase ==
  pc = "returned"
    => totals.currency = (IF inv.currency \in SupportedCodes THEN inv.currency
                          ELSE "INR")

\* the returned line items are the items of the input, in their order, each
\* with every field of its item and the result of calcLineItem as calc
LineItemsMirror(items, lineItems) ==
  /\ Len(lineItems) = Len(items)
  /\ \A i \in 1..Len(items) :
       /\ \A field \in DOMAIN items[i] : lineItems[i][field] = items[i][field]
       /\ lineItems[i].calc = calcLineItem(items[i])

\* C17: calcInvoiceTotals leaves its input as it was (no calc is attached to
\* the items of the invoice), and lineItems has the length and the order of
\* inv.items, its i-th record carrying the fields of the i-th item and
\* calc = calcLineItem(item).
C17_InputNotModified ==
  [][/\ inv' = inv
     /\ pc' = "returned" => LineItemsMirror(inv.items, totals'.lineItems)]_vars

C17_Witness ==
  /\ pc = "returned"
  /\ Len(inv.items) = 2
  /\ inv.items[1] # inv.items[2]
  /\ \A i \in 1..2 : "calc" \notin DOMAIN inv.items[i]
  /\ \A i \in 1..2 : totals.lineItems[i].calc.total # Zero

\* the symbol of a currency code, that of the first currency for a code that
\* is not supported
SymbolOf(code) ==
  LET known == {i \in 1..Len(CURRENCIES) : CURRENCIES[i].code = code}
  IN IF known = {} THEN CURRENCIES[1].symbol
     ELSE CURRENCIES[CHOOSE i \in known : TRUE].symbol

\* the number that groups of digits of one size spell
RECURSIVE SpelledBy(_, _)
SpelledBy(groups, size) ==
  IF Len(groups) = 1 THEN groups[1]
  ELSE SpelledBy(SubSeq(groups, 1, Len(groups) - 1), size) * size
         + groups[Len(groups)]

\* the number that the groups of a formatted amount spell, in whole units
Spelled(groups, locale) ==
  IF locale = "en-US" \/ Len(groups) = 1 THEN SpelledBy(groups, 1000)
  ELSE SpelledBy(SubSeq(groups, 1, Len(groups) - 1), 100) * 1000
         + groups[Len(groups)]

\* C18: formatCurrency(-x, c) = formatCurrency(x, c) for every amount x and
\* code c, and the result is the symbol of the currency followed by the
\* magnitude with exactly two decimals, never a minus sign.
C18_NoMinusSign ==
  pc = "returned"
    => /\ formatted = formatCurrency(Sub(Zero, amt), ccy)
       /\ ~formatted.minus
       /\ formatted.symbol = SymbolOf(IF ccy = NotPassed THEN "INR" ELSE ccy)
       /\ formatted.cents \in 0..99
       /\ LET hundredths == 100 * Spelled(formatted.groups, formatted.locale)
                              + formatted.cents
              m == MathAbs(amt)
          IN /\ ~Lt(Add(Paise(hundredths), Milli(5)), m)
             /\ ~Lt(Add(m, Milli(5)), Paise(hundredths))

C18_Witness ==
  /\ pc = "returned"
  /\ amt = Milli(0 - 1234567890)
  /\ ccy = "INR"
  /\ formatted = [symbol |-> "rupee sign", locale |-> "en-IN", minus |-> FALSE,
                  groups |-> <<12, 34, 567>>, cents |-> 89]

\* ------------------------------------------------------------------------
\* Properties of the renderers (RenderSpec)
\* ------------------------------------------------------------------------
\* the figures of a totals section: the label, the percentage and the
\* amount of every row, in order
Figures(rows) ==
  [i \in 1..Len(rows) |->
     [label |-> IF rows[i].label = "TOTAL" THEN "Total" ELSE rows[i].label,
      at |-> rows[i].at, amount |-> rows[i].amount]]

\* C19: for one totals object the preview, the PDF, the DOCX and the Excel
\* sheet show the same totals rows with the same amounts (Subtotal, the CGST
\* and SGST or the IGST of every bracket of rate > 0, Shipping when > 0,
\* Round Off when on and not 0, Total); no renderer shows a row that another
\* one leaves out.
C19_RenderersAgree ==
  (/\ shown # <<>>
   /\ exported.pdf # <<>>
   /\ exported.docx # <<>>
   /\ exported.excel # <<>>)
    => /\ Figures(exported.pdf) = Figures(shown)
       /\ Figures(exported.docx) = Figures(shown)
       /\ Figures(exported.excel) = Figures(shown)

\* ------------------------------------------------------------------------
\* Properties of the form (AppSpec)
\* ------------------------------------------------------------------------
\* the list without its idx-th element, the others in their order
RemoveAt(items, idx) ==
  [i \in 1..(Len(items) - 1) |-> IF i < idx THEN items[i] ELSE items[i + 1]]

C21_StoredIsCurrent ==
  pc = "form" => load(stored.data) = inv

\* every item of the invoice has non-negative numbers in its numeric fields
NumericItems == \A i \in 1..Len(inv.items) : NumericItem(inv.items[i])

\* |a - b| <= 0.01
WithinOneUnit(a, b) ==
  LET d == MathAbs(Sub(a, b)) IN IsNum(d) /\ ~Lt(Paise(1), d)

\* C22: the invoice-wide split and the per-bracket split differ by at most
\* 0.01, whatever the number of tax brackets: totalCGST against the sum of
\* cgst over taxBreakdown and totalSGST against the sum of sgst on an
\* intra-state invoice, totalIGST against the sum of igst on an inter-state
\* one.
C22_SplitsWithinOneUnit ==
  (pc = "returned" /\ NumericItems)
    => LET tb == totals.taxBreakdown
       IN IF totals.isInterState
          THEN WithinOneUnit(totals.totalIGST, Reduce([j \in 1..Len(tb) |-> tb[j].igst]))
          ELSE /\ WithinOneUnit(totals.totalCGST, Reduce([j \in 1..Len(tb) |-> tb[j].cgst]))
               /\ WithinOneUnit(totals.totalSGST, Reduce([j \in 1..Len(tb) |-> tb[j].sgst]))


\* the five values of calcLineItem before they are rounded
Unrounded(it) ==
  LET subtotal == Mul(it.quantity, it.rate)
      discountAmt == discountAmtOf(it, subtotal)
      taxableValue == Sub(subtotal, discountAmt)
      gstAmt == Mul(taxableValue, DivInt(ToNumber(it.gstRate), 100))
  IN [subtotal |-> subtotal,
      discountAmt |-> discountAmt,
      taxableValue |-> taxableValue,
      gstAmt |-> gstAmt,
      total |-> Add(taxableValue, gstAmt)]

\* a rounded to 2 decimals, a tie going away from zero
HalfAwayFromZero(a) ==
  IF IsNum(a) /\ a.p < 0 THEN Sub(Zero, Round2(Sub(Zero, a))) ELSE Round2(a)

\* C23: each of the five returned fields is its unrounded value rounded to
\* 2 decimals with a tie going away from zero, for negative values as for
\* positive ones: -0.005 is returned as -0.01 and +0.005 as +0.01.
C23_TiesAwayFromZero ==
  pc = "returned"
    => \A field \in DOMAIN calc :
         calc[field] = HalfAwayFromZero(Unrounded(item)[field])

\* the words of a number below 100: the irregular table below 20, a tens
\* word with an optional ones word from 20
Below100(n) ==
  IF n = 0 THEN <<>>
  ELSE IF n < 20 THEN <<ones[n]>>
  ELSE <<tens[n \div 10]>> \o (IF n % 10 = 0 THEN <<>> ELSE <<ones[n % 10]>>)

\* the Indian grouping of n: Crore, Lakh, Thousand, Hundred and the rest,
\* each part present only when its multiplier is not 0
RECURSIVE IndianGrouping(_)
IndianGrouping(n) ==
  LET crore == n \div 10000000
      lakh == (n % 10000000) \div 100000
      thousand == (n % 100000) \div 1000
      hundred == (n % 1000) \div 100
      Part(m, name) == IF m = 0 THEN <<>> ELSE IndianGrouping(m) \o <<name>>
  IN Part(crore, "Crore") \o Part(lakh, "Lakh") \o Part(thousand, "Thousand")
       \o Part(hundred, "Hundred")
       \o (IF hundred # 0 /\ n % 100 # 0 THEN <<"and">> ELSE <<>>)
       \o Below100(n % 100)

\* amt is a positive whole number
PositiveWhole == IsNum(amt) /\ amt.p > 0 /\ amt.p % 100 = 0 /\ amt.f = 0

\* C24: for a positive whole number n the words follow the Indian grouping:
\* the words of n div 10^7 and "Crore", of (n mod 10^7) div 10^5 and "Lakh",
\* of (n mod 10^5) div 1000 and "Thousand", of (n mod 1000) div 100 and
\* "Hundred", then the words of n mod 100 (after "and" when a Hundred
\* precedes), each part only when its multiplier is not 0; numbers below 20
\* come from the irregular table, 20..99 are a tens word with an optional
\* ones word; "Million" and "Billion" never occur.
C24_IndianGrouping ==
  (pc = "returned" /\ PositiveWhole)
    => /\ spoken.w = <<SpokenName(ccy)>> \o IndianGrouping(amt.p \div 100) \o <<"Only">>
       /\ \A i \in 1..Len(spoken.w) : spoken.w[i] \notin {"Million", "Billion"}

\* 2,10,99,005 is spelled with a Crore, a Lakh and a Thousand group
C24_Witness ==
  /\ pc = "returned"
  /\ amt = Whole(21099005)
  /\ ccy = "INR"
  /\ spoken.w = <<"Rupees", "Two", "Crore", "Ten", "Lakh", "Ninety", "Nine",
                  "Thousand", "Five", "Only">>

\* the sum of one calc field over the returned line items
SumOver(field) ==
  Reduce([i \in 1..Len(totals.lineItems) |-> totals.lineItems[i].calc[field]])

\* C25: the returned grandTotal equals totalTaxable + totalTax +
\* shippingCharge of the same object, and subtotal, totalDiscount,
\* totalTaxable and totalTax are the sums of the items' subtotal,
\* discountAmt, taxableValue and gstAmt, for every invoice and every
\* shippingCharge.
C25_GrandTotalIsSumOfParts ==
  (pc = "returned" /\ NumericItems)
    => /\ StrictEq(totals.grandTotal,
                   Add(Add(totals.totalTaxable, totals.totalTax),
                       totals.shippingCharge))
       /\ StrictEq(totals.subtotal, SumOver("subtotal"))
       /\ StrictEq(totals.totalDiscount, SumOver("discountAmt"))
       /\ StrictEq(totals.totalTaxable, SumOver("taxableValue"))
       /\ StrictEq(totals.totalTax, SumOver("gstAmt"))

\* a <= 0
NonPos(a) == IsNum(a) /\ ~Lt(Zero, a)

\* the line items with a subtotal above 0 and a percent discount above 100
OverDiscountedLines ==
  {i \in 1..Len(totals.lineItems) :
     LET li == totals.lineItems[i]
     IN /\ NumericItem(li)
        /\ li.discountType = "percent"
        /\ Lt(Whole(100), li.discount)
        /\ Lt(Zero, Mul(li.quantity, li.rate))}

\* the totals are the sums of the line items, negative amounts included
TotalsCarryLines ==
  /\ StrictEq(totals.totalTaxable, SumOver("taxableValue"))
  /\ StrictEq(totals.totalTax, SumOver("gstAmt"))
  /\ StrictEq(totals.grandTotal,
              Round2(Add(Add(SumOver("taxableValue"), SumOver("gstAmt")),
                         totals.shippingCharge)))

\* C26: a percent discount has no upper clamp: with discount > 100 and
\* subtotal > 0 calcLineItem returns discountAmt > subtotal, a negative
\* taxableValue, a negative gstAmt (when gstRate > 0) and a negative total,
\* and calcInvoiceTotals carries them into totalTaxable, totalTax and
\* grandTotal.
C26_OverDiscountNegative ==
  (pc = "returned" /\ NumericItems)
    => /\ \A i \in OverDiscountedLines :
            LET li == totals.lineItems[i]
            IN /\ Lt(li.calc.subtotal, li.calc.discountAmt)
               /\ Lt(li.calc.taxableValue, Zero)
               /\ Lt(Zero, li.gstRate) => Lt(li.calc.gstAmt, Zero)
               /\ Lt(li.calc.total, Zero)
       /\ OverDiscountedLines # {} => TotalsCarryLines

\* C26, amended: discountAmt is subtotal x discount / 100 rounded to 2
\* decimals, never clamped: with discount > 100 and subtotal > 0 it is at
\* least subtotal, and taxableValue, gstAmt and total are 0 or negative,
\* each negative when its unrounded value is below -0.005;
\* calcInvoiceTotals carries them into totalTaxable, totalTax and grandTotal.
C26_OverDiscountNotClamped ==
  (pc = "returned" /\ NumericItems)
    => /\ \A i \in OverDiscountedLines :
            LET li == totals.lineItems[i]
                sub == Mul(li.quantity, li.rate)
                disc == Mul(sub, DivInt(li.discount, 100))
                taxable == Sub(sub, disc)
                gst == Mul(taxable, DivInt(li.gstRate, 100))
                Below(a) == Lt(a, Milli(0 - 5))
            IN /\ li.calc.discountAmt = Round2(disc)
               /\ ~Lt(li.calc.discountAmt, li.calc.subtotal)
               /\ NonPos(li.calc.taxableValue)
               /\ NonPos(li.calc.gstAmt)
               /\ NonPos(li.calc.total)
               /\ Below(taxable) => Lt(li.calc.taxableValue, Zero)
               /\ Below(gst) => Lt(li.calc.gstAmt, Zero)
               /\ Below(Add(taxable, gst)) => Lt(li.calc.total, Zero)
       /\ OverDiscountedLines # {} => TotalsCarryLines

\* 150% off an item of 10.00 at 12%: the invoice totals are negative
C26_Witness ==
  /\ pc = "returned"
  /\ Len(totals.lineItems) = 1
  /\ OverDiscountedLines = {1}
  /\ totals.lineItems[1].calc.discountAmt = Whole(15)
  /\ totals.totalTaxable = Whole(0 - 5)
  /\ totals.totalTax = Paise(0 - 60)
  /\ totals.shippingCharge = Zero
  /\ totals.grandTotal = Paise(0 - 560)

\* what a reader sees of the rows: the label and the displayed amount
Displayed(rows) ==
  [i \in 1..Len(rows) |-> [label |-> rows[i].label, display |-> rows[i].display]]

\* the totals with the round-off adjustment in the other direction
OppositeRoundOff(tot) == [tot EXCEPT !.roundOffAmt = Sub(Zero, @)]

\* C27: in the preview and in the PDF the Round Off row of a negative
\* adjustment (-0.40) differs from the row of the positive adjustment of the
\* same magnitude (+0.40): the direction of the adjustment can be read.
C27_RoundOffDirectionShown ==
  (/\ shown # <<>>
   /\ exported.pdf # <<>>
   /\ inv.roundOff
   /\ Lt(totals.roundOffAmt, Zero))
    => /\ Displayed(shown)
            # Displayed(InvoicePreview(inv, OppositeRoundOff(totals)))
       /\ Displayed(exported.pdf)
            # Displayed(exportPDF(inv, OppositeRoundOff(totals)))

\* the value of a number word: One..Nineteen, Twenty..Ninety, 0 for "Zero"
WordValue(word) ==
  IF \E k \in DOMAIN ones : ones[k] = word
  THEN CHOOSE k \in DOMAIN ones : ones[k] = word
  ELSE IF \E k \in DOMAIN tens : tens[k] = word /\ word # ""
  THEN 10 * (CHOOSE k \in DOMAIN tens : tens[k] = word)
  ELSE 0

\* the number that a list of number words denotes, read from the left: done
\* is the value of the groups that are closed, open the value of the group
\* that is being read
RECURSIVE Denoted(_, _, _)
Denoted(ws, done, open) ==
  IF ws = <<>> THEN done + open
  ELSE LET word == Head(ws)
           rest == Tail(ws)
       IN IF word = "Crore" THEN Denoted(rest, (done + open) * 10000000, 0)
          ELSE IF word = "Lakh" THEN Denoted(rest, done + open * 100000, 0)
          ELSE IF word = "Thousand" THEN Denoted(rest, done + open * 1000, 0)
          ELSE IF word = "Hundred" THEN Denoted(rest, done, open * 100)
          ELSE Denoted(rest, done, open + WordValue(word))

\* the number stated by "<CurrencyName> <Words> Only"
AmountStated(w) == Whole(Denoted(SubSeq(w, 2, Len(w) - 1), 0, 0))

\* C28: for an invoice with a non-negative grand total, with roundOff on and
\* off, the number that the words of amountInWords denote equals
\* roundedTotal (which may have a fraction, such as 10.49, with roundOff
\* off).
C28_WordsStateTheTotal ==
  (pc = "returned" /\ NonNeg(totals.grandTotal))
    => AmountStated(totals.amountInWords) = totals.roundedTotal

\* C29: an item whose discountType is missing, or anything other than
\* "flat", is computed like a "percent" item: calcLineItem returns the five
\* fields of the same item with discountType "percent".
C29_MissingTypeIsPercent ==
  (pc = "returned" /\ item.discountType # "flat")
    => calc = calcLineItem([item EXCEPT !.discountType = "percent"])

\* an item of 3 x 1.00 with discount 10 and no discountType: 10% is taken
\* off, not the amount 10 clamped to 3
C29_Witness ==
  /\ pc = "returned"
  /\ item = [quantity |-> Whole(3), rate |-> Whole(1), discount |-> Whole(10),
             discountType |-> "undef", gstRate |-> Whole(18)]
  /\ calc.discountAmt = Paise(30)
  /\ calc.taxableValue = Paise(270)

\* the amounts of the items and the shipping charge are numbers of at most
\* 2 decimals
TwoDecimalInputs ==
  /\ NumericItems
  /\ \A i \in 1..Len(inv.items) :
       \A field \in {"quantity", "rate", "discount"} : inv.items[i][field].f = 0
  /\ inv.shippingCharge.k \in {"num", "numstr"}
  /\ inv.shippingCharge.f = 0

\* C30: on an invoice whose item amounts and shippingCharge have at most 2
\* decimals, roundOffAmt is 0 with roundOff off; with roundOff on it is
\* above -0.50 and at most 0.50, and roundedTotal is a whole number.
C30_RoundOffBounded ==
  (pc = "returned" /\ TwoDecimalInputs)
    => IF inv.roundOff
       THEN /\ Lt(Paise(0 - 50), totals.roundOffAmt)
            /\ ~Lt(Paise(50), totals.roundOffAmt)
            /\ IsNum(totals.roundOffAmt)
            /\ IsNum(totals.roundedTotal)
            /\ totals.roundedTotal.f = 0
            /\ totals.roundedTotal.p % 100 = 0
       ELSE totals.roundOffAmt = Zero

\* a grand total of 0.40 is rounded down to 0: the adjustment is -0.40
C30_Witness ==
  /\ pc = "returned"
  /\ TwoDecimalInputs
  /\ inv.roundOff
  /\ totals.grandTotal = Paise(40)
  /\ totals.roundedTotal = Zero
  /\ totals.roundOffAmt = Paise(0 - 40)

====
